---- MODULE Spec2Model ----
(***************************************************************************)
(* A model of atomail.py: the MessageFeed class (the Atom document kept as *)
(* the sequence of the root element's child nodes), the date helpers, and   *)
(* the main program's run: load, ingestion loop, set_updated, save.         *)
(*                                                                         *)
(* Time is counted in minutes.  A datetime is [local, off, aware]: the     *)
(* wall-clock minute, the UTC offset in hours (class TZ) and whether it    *)
(* carries a tzinfo.  The text isoformat() writes is [local, off, tzd].    *)
(* md5 is modelled as injective on its input: the digest of a message is   *)
(* the concatenation it hashes.  A feed file holds what toxml() wrote, the *)
(* sequence of child nodes, which minidom.parse gives back.                *)
(***************************************************************************)
EXTENDS Integers, Sequences, FiniteSets, TLC

VARIABLES
  file,         \* the feed file: [kind: "absent" | "corrupt" | "feed", doc]
  doc,          \* self.doc: the child nodes of the feed root, in document order
  pc,           \* where the main program is
  opts,         \* --max-items and --max-time, the same in every run
  cfg,          \* --uri, --title and the arguments the program is invoked with
  mbox,         \* the mailbox behind the source, newest message first
  src,          \* the sequence source.messages() yields in this run
  pos,          \* index in src of the next message the loop takes
  count,        \* the loop's counter of added messages
  now,          \* the wall clock (UTC minutes)
  tzone,        \* the UTC offset of the local time zone, in hours
  current_time, \* current_time of __main__ (line 569)
  run,          \* history of the current run (see Start)
  hist,         \* history across runs
  lastTrim,     \* history of the last trim_entries call
  api           \* history of the set operations (SpecFeed)

vars == <<file, doc, pc, opts, cfg, mbox, src, pos, count, now, tzone,
          current_time, run, hist, lastTrim, api>>

----------------------------------------------------------------------------
(* Bounds of the model *)

MaxMail == 3        \* messages in the mailbox (Spec)
MaxNow == 2         \* the clock stops advancing here
MaxCap == 1         \* largest --max-items of the runs (Spec)
MaxMailConf == 2    \* messages in the mailbox (SpecConf)
MaxAge == 1         \* largest --max-time of the runs (SpecConf, minutes)
MaxDoc == 3         \* child nodes of an arbitrary document (SpecFeed)
MaxCalls == 2       \* set operations applied to it (SpecFeed)
MaxEntries == 3     \* entries of an arbitrary document (SpecTrim)
MaxTrimCap == 2     \* largest max_items given to trim_entries (SpecTrim)
MaxTrimAge == 2     \* largest max_time given to trim_entries (SpecTrim)
MaxMailMsg == 2     \* messages in the mailbox (SpecMsg)
MaxMailArgs == 1    \* messages in the mailbox (SpecArgs)
MaxMailNet == 2     \* messages on the server (SpecNet)

(* Program constants *)

MINYEAR == -100000       \* datetime.datetime(datetime.MINYEAR,1,1), in minutes
MinutesPerHour == 60     \* datetime.timedelta(hours=self.hours)
PROGRAM_NAME == 7        \* the generator's text
YearDay == 1             \* date[7] of the tuple email.Utils.parsedate returns

URIs == {1, 2}
Titles == {1, 2}

Modes ==
  {"pipe", "mbox", "maildir", "pop3", "pop3-ssl", "imap", "imap-ssl", "nntp"}

\* the number of positional arguments, --mode, and whether --host, --user,
\* --password, --file and --group are given
Args(n, mode, host, user, password, f, group) ==
  [nargs |-> n, mode |-> mode, host |-> host, user |-> user,
   password |-> password, file |-> f, group |-> group]

ArgSets ==
  [nargs : 0..2, mode : Modes, host : BOOLEAN, user : BOOLEAN,
   password : BOOLEAN, file : BOOLEAN, group : BOOLEAN]

\* atomail --mode mbox --file F feedfile
MboxArgs == Args(1, "mbox", FALSE, FALSE, FALSE, TRUE, FALSE)

Config(uri, title, args) == [uri |-> uri, title |-> title, args |-> args]

Configs == {Config(1, 1, MboxArgs), Config(2, 2, MboxArgs)}
TZs == {0, 1}
ItemCaps == 0..MaxCap
AgeCaps == {-1} \cup (1..MaxAge)

----------------------------------------------------------------------------
(* Messages: the three headers the program reads (<<>> is an absent       *)
(* header) and the body, a leaf or a multipart of bodies                   *)

\* a leaf of the MIME tree: its content type, its payload (0: missing) and
\* its charset parameter (0: none, 1: a codec Python knows, 2: one it does not)
Leaf(type, payload, charset) ==
  [multipart |-> FALSE, type |-> type, payload |-> payload,
   charset |-> charset, parts |-> <<>>]

Multipart(parts) ==
  [multipart |-> TRUE, type |-> "multipart/mixed", payload |-> 0,
   charset |-> 0, parts |-> parts]

Mail(f, s, d, body) == [From |-> f, Subject |-> s, Date |-> d, body |-> body]

\* a message with a text/plain body
Msg(f, s, d) == Mail(f, s, d, Leaf("text/plain", 1, 0))

Messages ==
  { Msg(<<1>>, <<2>>, <<1>>),      \* digest input 1,2,1
    Msg(<<1, 2>>, <<>>, <<1>>),    \* another message, same digest input
    Msg(<<2>>, <<2>>, <<1>>) }

message_id(message) ==
  (IF message.From # <<>> THEN message.From ELSE <<>>)
    \o (IF message.Subject # <<>> THEN message.Subject ELSE <<>>)
    \o (IF message.Date # <<>> THEN message.Date ELSE <<>>)

----------------------------------------------------------------------------
(* Dates *)

DateTime(l, o, a) == [local |-> l, off |-> o, aware |-> a]

\* datetime.isoformat(): the offset is written only for an aware datetime
isoformat(dt) ==
  [local |-> dt.local, off |-> IF dt.aware THEN dt.off ELSE 0, tzd |-> dt.aware]

\* from_atom_date: the timezone group is optional and defaults to 0; the
\* result always carries a TZ
from_atom_date(date) ==
  DateTime(date.local, IF date.tzd THEN date.off ELSE 0, TRUE)

\* the instant of an aware datetime, which comparison and subtraction use
Utc(dt) == dt.local - dt.off * MinutesPerHour

\* cmp of two datetimes (both aware, or both naive)
CmpDate(x, y) ==
  LET a == IF x.aware THEN Utc(x) ELSE x.local
      b == IF y.aware THEN Utc(y) ELSE y.local
  IN  IF a < b THEN -1 ELSE IF a > b THEN 1 ELSE 0

current_datetime(clock, tz) == DateTime(clock + tz * MinutesPerHour, tz, TRUE)

MinDate == DateTime(MINYEAR, 0, FALSE)

NoText == [local |-> 0, off |-> 0, tzd |-> FALSE]

----------------------------------------------------------------------------
(* What add_message reads from a message *)

\* a call that returned a value, and a call that raised an exception
Returned(v) == [raised |-> FALSE, value |-> v]
Raised == [raised |-> TRUE, value |-> <<>>]

\* email.Utils.parsedate: a date text is a minute number, 0 standing for a
\* text that is not a date; the result is the date tuple, or <<>> for None
parsedate(text) ==
  IF text = <<>> \/ text[1] = 0 THEN <<>> ELSE <<text[1], 0, YearDay>>

\* message_date: date[7] becomes the TZ.  When parsedate gives None the
\* warning concatenates message['Date'], which raises when the header is
\* absent (older libraries raise in parsedate already)
message_date(message) ==
  LET date == parsedate(message.Date)
  IN  IF date # <<>> THEN Returned(DateTime(date[1], date[3], TRUE))
      ELSE IF message.Date = <<>> THEN Raised
           ELSE Returned(MinDate)

\* get_charset: the part's own charset, else the default
get_charset(part, default) == IF part.charset # 0 THEN part.charset ELSE default

Ascii == 1

RECURSIVE message_contents(_, _)
\* message_contents: the (type, text) pairs of the text/plain and text/html
\* leaves that have a payload; unicode() raises on a codec it does not know
message_contents(part, default_charset) ==
  IF part.multipart
  THEN IF part.parts = <<>> THEN Returned(<<>>)
       ELSE LET head == message_contents(Head(part.parts), default_charset)
                rest == message_contents(Multipart(Tail(part.parts)),
                                         default_charset)
            IN  IF head.raised \/ rest.raised THEN Raised
                ELSE Returned(head.value \o rest.value)
  ELSE IF part.payload # 0
       THEN IF get_charset(part, default_charset) = 2 THEN Raised
            ELSE IF part.type = "text/html"
                 THEN Returned(<< <<"html", part.payload>> >>)
                 ELSE IF part.type = "text/plain"
                      THEN Returned(<< <<"text", part.payload>> >>)
                      ELSE Returned(<<>>)
       ELSE Returned(<<>>)

\* cmp of two (type, text) tuples: "html" sorts before "text"
ContentBefore(x, y) ==
  \/ x[1] = "html" /\ y[1] = "text"
  \/ x[1] = y[1] /\ x[2] <= y[2]

\* contents.sort(); contents[0]
PreferredContent(contents) ==
  contents[CHOOSE i \in 1..Len(contents) :
             \A j \in 1..Len(contents) : ContentBefore(contents[i], contents[j])]

NoSubject == <<0>>

\* decode_header: the header, or the default when the header is absent,
\* as decoded text
decode_header(header, default) ==
  [decoded |-> IF header # <<>> THEN header ELSE default]

NoTitle == [decoded |-> <<>>]
NoContent == [type |-> "", text |-> NoTitle]

----------------------------------------------------------------------------
(* The document: nodes and the MessageFeed methods *)

Node(tag, val, eid, upd, pub, title, content) ==
  [tag |-> tag, val |-> val, eid |-> eid, upd |-> upd, pub |-> pub,
   title |-> title, content |-> content]

Elem(tag, val) == Node(tag, val, <<>>, NoText, NoText, NoTitle, NoContent)
DateElem(tag, text) == Node(tag, 0, <<>>, text, NoText, NoTitle, NoContent)
Entry(eid, text) == Node("entry", 0, eid, text, NoText, NoTitle, NoContent)

\* indices of the root's direct children with this tag, in document order
TopLevel(d, tag) == {i \in 1..Len(d) : d[i].tag = tag}

Min(S) == CHOOSE x \in S : \A y \in S : x <= y

RemoveAt(d, i) == SubSeq(d, 1, i - 1) \o SubSeq(d, i + 1, Len(d))
InsertAt(d, i, x) == SubSeq(d, 1, i - 1) \o <<x>> \o SubSeq(d, i, Len(d))

EntryIds(d) == {d[i].eid : i \in TopLevel(d, "entry")}

\* replace_element that appends without looking for the old node
replace_element_dup(d, element) ==
  LET entries == TopLevel(d, "entry")
  IN  IF entries # {} THEN InsertAt(d, Min(entries), element)
      ELSE Append(d, element)

\* replace_element that leaves the new element where the old one was
replace_element_inplace(d, element) ==
  LET nodes == TopLevel(d, element.tag)
      entries == TopLevel(d, "entry")
  IN  IF nodes # {} THEN [d EXCEPT ![Min(nodes)] = element]
      ELSE IF entries # {} THEN InsertAt(d, Min(entries), element)
      ELSE Append(d, element)

\* replace_element without the parentNode test of its filter: the first
\* element of the tag anywhere under the root is the one taken out, be it a
\* child of an entry
replace_element_deep(d, element) ==
  LET t == element.tag
      holds(x) == /\ x.tag = "entry"
                  /\ \/ t = "id" /\ x.eid # <<>>
                     \/ t = "updated" /\ x.upd # NoText
                     \/ t = "title" /\ x.title # NoTitle
      nodes == {i \in 1..Len(d) : d[i].tag = t \/ holds(d[i])}
      first == Min(nodes)
      d1 == IF nodes = {} THEN d
            ELSE IF d[first].tag = t THEN RemoveAt(d, first)
            ELSE [d EXCEPT ![first] =
                    [@ EXCEPT !.eid = IF t = "id" THEN <<>> ELSE @,
                              !.upd = IF t = "updated" THEN NoText ELSE @,
                              !.title = IF t = "title" THEN NoTitle ELSE @]]
      entries == TopLevel(d1, "entry")
  IN  IF entries # {} THEN InsertAt(d1, Min(entries), element)
      ELSE Append(d1, element)

replace_element(d, element) ==
  LET nodes == TopLevel(d, element.tag)
      \* replaceChild(element, nodes[0])
      d1 == IF nodes # {} THEN [d EXCEPT ![Min(nodes)] = element] ELSE d
      \* insertBefore and appendChild first take the element out of its parent
      d2 == IF nodes # {} THEN RemoveAt(d1, Min(nodes)) ELSE d1
      entries == TopLevel(d2, "entry")
  IN  IF entries # {} THEN InsertAt(d2, Min(entries), element)
      ELSE Append(d2, element)

set_element_text(d, tagname, value) == replace_element(d, Elem(tagname, value))

set_id(d, id) == set_element_text(d, "id", id)
set_title(d, title) == set_element_text(d, "title", title)
set_link(d, uri) == replace_element(d, Elem("link", uri))
set_generator(d) == replace_element(d, Elem("generator", PROGRAM_NAME))
\* a set_updated that adds its element without replacing the old one
set_updated_add(d, time) ==
  replace_element_dup(d, DateElem("updated", isoformat(time)))

set_updated(d, time) == replace_element(d, DateElem("updated", isoformat(time)))

\* MessageFeed.id(): the text of the first direct "id" child
FeedId(d) == d[Min(TopLevel(d, "id"))].val

\* MessageFeed.updated()
FeedUpdated(d) == from_atom_date(d[Min(TopLevel(d, "updated"))].upd)

EntryIdOf(d, message) == <<FeedId(d), message_id(message)>>

\* contains_message that never finds the entry
contains_message_never(d, message) == FALSE

contains_message(d, message) ==
  \E i \in TopLevel(d, "entry") : d[i].eid = EntryIdOf(d, message)

\* whether add_message raises before it appends the entry
add_message_raises(message) ==
  \/ message_date(message).raised
  \/ message_contents(message.body, get_charset(message.body, Ascii)).raised

\* add_message: the entry (the author element is left out) is appended at
\* the end of the root
add_message(d, message, clock, tz) ==
  LET date == message_date(message).value
      title_text == decode_header(message.Subject, NoSubject)
      contents == message_contents(message.body,
                                   get_charset(message.body, Ascii)).value
      content == IF contents # <<>>
                 THEN [type |-> PreferredContent(contents)[1],
                       text |-> [decoded |-> <<PreferredContent(contents)[2]>>]]
                 ELSE [type |-> "", text |-> title_text]
  IN  Append(d, Node("entry", 0, EntryIdOf(d, message),
                     isoformat(current_datetime(clock, tz)),
                     isoformat(date), title_text, content))

\* entry_date: the entry's updated child, parsed; an entry without one
\* (upd = NoText) gets datetime(MINYEAR,1,1), which carries no tzinfo
entry_date(entry) ==
  IF entry.upd # NoText THEN from_atom_date(entry.upd) ELSE MinDate

\* comparing a datetime that has a tzinfo with one that has none raises
\* TypeError
CmpRaises(x, y) == x.aware # y.aware

----------------------------------------------------------------------------
(* trim_entries *)

\* a sort that puts an entry in front of the entries it compares equal to
InsertSortedUnstable(d, s, i) ==
  LET p == Cardinality({q \in 1..Len(s) :
                          CmpDate(entry_date(d[s[q]]), entry_date(d[i])) < 0})
  IN  InsertAt(s, p + 1, i)

\* entries.sort(cmp by entry_date): Python's sort is stable, so an entry goes
\* behind every entry that does not compare greater
InsertSorted(d, s, i) ==
  LET p == Cardinality({q \in 1..Len(s) :
                          CmpDate(entry_date(d[s[q]]), entry_date(d[i])) <= 0})
  IN  InsertAt(s, p + 1, i)

RECURSIVE SortUpTo(_, _)
SortUpTo(d, n) ==
  IF n = 0 THEN <<>>
  ELSE LET s == SortUpTo(d, n - 1)
       IN  IF d[n].tag = "entry" THEN InsertSorted(d, s, n) ELSE s

RECURSIVE DocOrderUpTo(_, _)
DocOrderUpTo(d, n) ==
  IF n = 0 THEN <<>>
  ELSE LET s == DocOrderUpTo(d, n - 1)
       IN  IF d[n].tag = "entry" THEN Append(s, n) ELSE s

\* the entries left in document order (the sort forgotten)
UnsortedEntries(d) == DocOrderUpTo(d, Len(d))

\* the indices of the entries, oldest updated first
SortedEntries(d) == SortUpTo(d, Len(d))

\* a removal that writes the retained entries back in the sorted order
WithoutSorted(d, R) ==
  LET order == SortedEntries(d)
      kept == SelectSeq(order, LAMBDA i : i \notin R)
  IN  SelectSeq(d, LAMBDA x : x.tag # "entry")
        \o [q \in 1..Len(kept) |-> d[kept[q]]]

\* the document without the children at the indices R
Without(d, R) ==
  LET K == (1..Len(d)) \ R
  IN  [j \in 1..Cardinality(K) |->
         d[CHOOSE i \in K : Cardinality({x \in K : x < i}) = j - 1]]

\* an age rule that looks at the first entry only
AgeCutFirst(d, order, max_datetime) ==
  IF order # <<>> /\ CmpDate(entry_date(d[order[1]]), max_datetime) < 0
  THEN 1 ELSE 0

\* while entries and entry_date(entries[0]) < max_datetime: how many are popped
AgeCut(d, order, max_datetime) ==
  Min({p \in 0..Len(order) :
         p = Len(order)
         \/ CmpDate(entry_date(d[order[p + 1]]), max_datetime) >= 0})

\* a count rule that takes max_items = 0 as a cap of no entries
CountCutFromZero(n, max_items) ==
  IF max_items >= 0 /\ n > max_items THEN n - max_items ELSE 0

\* while len(entries) > self.max_items: how many are popped
CountCut(n, max_items) ==
  IF max_items > 0 /\ n > max_items THEN n - max_items ELSE 0

\* entries.sort raises: the sort compares every entry with an earlier one,
\* so it meets a pair it cannot compare as soon as there is one
SortRaises(d) ==
  \E i, j \in TopLevel(d, "entry") :
    CmpRaises(entry_date(d[i]), entry_date(d[j]))

\* trim_entries at clock time `clock`: the document it leaves and what it
\* did.  It raises in the sort, before anything is removed, or in the age
\* rule's first comparison, after the count rule has removed its entries
trim_entries(d, max_items, max_time, clock, tz) ==
  LET sortRaises == SortRaises(d)
      order == IF sortRaises THEN <<>> ELSE SortedEntries(d)
      nCount == CountCut(Len(order), max_items)
      order1 == SubSeq(order, nCount + 1, Len(order))
      T == current_datetime(clock, tz)
      max_datetime == DateTime(T.local - max_time, T.off, TRUE)
      ageRaises == /\ max_time > 0
                   /\ order1 # <<>>
                   /\ CmpRaises(entry_date(d[order1[1]]), max_datetime)
      nAge == IF max_time > 0 /\ ~ageRaises
              THEN AgeCut(d, order1, max_datetime) ELSE 0
      gone == {order[q] : q \in 1..(nCount + nAge)}
  IN  [doc |-> Without(d, gone), before |-> d, order |-> order,
       nCount |-> nCount, nAge |-> nAge,
       goneCount |-> {order[q] : q \in 1..nCount},
       goneAge |-> {order[q] : q \in (nCount + 1)..(nCount + nAge)},
       max_items |-> max_items, max_time |-> max_time, T |-> T,
       done |-> ~(sortRaises \/ ageRaises),
       raised |-> sortRaises \/ ageRaises]

NoTrim ==
  [doc |-> <<>>, before |-> <<>>, order |-> <<>>, nCount |-> 0, nAge |-> 0,
   goneCount |-> {}, goneAge |-> {},
   max_items |-> 0, max_time |-> 0, T |-> MinDate, done |-> FALSE,
   raised |-> FALSE]

----------------------------------------------------------------------------
(* MessageFeed.__init__ *)

Absent == [kind |-> "absent", doc |-> <<>>]

\* the document createDocument gives, with set_id and set_updated applied
FreshDoc(uri) == set_updated(set_id(<<>>, uri), MinDate)

\* a constructor that reads what it can from a file that does not parse
MessageFeedInitLenient(f, uri, title) ==
  LET loaded == IF f.kind \in {"feed", "corrupt"} THEN f.doc ELSE FreshDoc(uri)
  IN  set_title(set_link(loaded, uri), title)

\* a constructor that applies the title to a fresh document only
MessageFeedInitNoTitle(f, uri, title) ==
  IF f.kind = "feed" THEN set_link(f.doc, uri)
  ELSE set_title(set_link(FreshDoc(uri), uri), title)

\* self.doc after the constructor: the parsed file replaces the fresh
\* document; a file that is absent or does not parse leaves the fresh one
MessageFeedInit(f, uri, title) ==
  LET loaded == IF f.kind = "feed" THEN f.doc ELSE FreshDoc(uri)
  IN  set_title(set_link(loaded, uri), title)

\* max() of two aware datetimes
MaxDate(x, y) == IF CmpDate(x, y) >= 0 THEN x ELSE y

\* from_time of __main__ (computed, then not used by the loop)
FromTime(max_time, cur, updated_time) ==
  IF max_time > 0
  THEN MaxDate(DateTime(cur.local - max_time, cur.off, TRUE), updated_time)
  ELSE updated_time

----------------------------------------------------------------------------
(* The main program, run after run *)

Idle == pc = "idle"

Tags == {"id", "title", "link", "updated", "generator"}

NoNode == Elem("none", 0)

NoApi == [calls |-> 0, init |-> <<>>, last |-> [t \in Tags |-> NoNode],
          n |-> [t \in Tags |-> 0]]

NoRun ==
  [kind |-> "none", file0 |-> Absent, ids0 |-> {}, appended |-> <<>>,
   inspected |-> 0, rerun |-> FALSE, from_time |-> MinDate, writes |-> 0]

\* the state before the first run, for any --max-items and --max-time
InitAny ==
  /\ file = Absent
  /\ doc = <<>>
  /\ pc = "idle"
  /\ opts \in [max_items : ItemCaps, max_time : AgeCaps]
  /\ cfg = Config(1, 1, MboxArgs)
  /\ mbox = <<>>
  /\ src = <<>>
  /\ pos = 1
  /\ count = 0
  /\ now = 0
  /\ tzone = 1
  /\ current_time = MinDate
  /\ run = NoRun
  /\ hist = [fresh |-> FALSE, everAdded |-> {}, readded |-> FALSE]
  /\ lastTrim = NoTrim
  /\ api = NoApi

\* runs with the age rule off (the default --max-time)
Init ==
  /\ InitAny
  /\ opts.max_time = -1

\* a new message arrives in the mailbox (the source yields newest first)
Deliver(m) ==
  /\ Idle
  /\ mbox' = <<m>> \o mbox
  /\ hist' = [hist EXCEPT !.fresh = FALSE]
  /\ UNCHANGED <<file, doc, pc, opts, cfg, src, pos, count, now, tzone,
                 current_time, run, lastTrim, api>>

\* the clock advances
Tick ==
  /\ now < MaxNow
  /\ now' = now + 1
  /\ UNCHANGED <<file, doc, pc, opts, cfg, mbox, src, pos, count, tzone,
                 current_time, run, hist, lastTrim, api>>

\* the feed file is damaged between two runs: it no longer parses
CorruptFile ==
  /\ Idle
  /\ file.kind = "feed"
  /\ file' = [file EXCEPT !.kind = "corrupt"]
  /\ hist' = [fresh |-> FALSE, everAdded |-> {}, readded |-> FALSE]
  /\ UNCHANGED <<doc, pc, opts, cfg, mbox, src, pos, count, now, tzone,
                 current_time, run, lastTrim, api>>

\* a check that forgets the group of the nntp mode
ConfigOkNoGroup(a) ==
  /\ a.nargs = 1
  /\ a.mode \in {"pop3", "pop3-ssl", "imap", "imap-ssl", "nntp"} => a.host
  /\ a.mode \in {"pop3", "pop3-ssl", "imap", "imap-ssl"} => a.user
  /\ a.mode \in {"pop3", "pop3-ssl", "imap", "imap-ssl"} => a.password
  /\ a.mode \in {"mbox", "maildir"} => a.file

\* lines 541-559: none of the sys.exit calls is reached
ConfigOk(a) ==
  /\ a.nargs = 1
  /\ a.mode \in {"pop3", "pop3-ssl", "imap", "imap-ssl", "nntp"} => a.host
  /\ a.mode \in {"pop3", "pop3-ssl", "imap", "imap-ssl"} => a.user
  /\ a.mode \in {"pop3", "pop3-ssl", "imap", "imap-ssl"} => a.password
  /\ a.mode \in {"mbox", "maildir"} => a.file
  /\ a.mode = "nntp" => a.group

\* lines 541-559: sys.exit with a message; the process ends here
ConfigError ==
  /\ Idle
  /\ ~ConfigOk(cfg.args)
  /\ pc' = "exited"
  /\ UNCHANGED <<file, doc, opts, cfg, mbox, src, pos, count, now, tzone,
                 current_time, run, hist, lastTrim, api>>

\* lines 566-600: the feed is constructed, updated_time and current_time
\* are read, the source is created and from_time is computed
Start ==
  /\ Idle
  /\ ConfigOk(cfg.args)
  /\ LET d == MessageFeedInit(file, cfg.uri, cfg.title)
         cur == current_datetime(now, tzone)
     IN  /\ doc' = d
         /\ current_time' = cur
         /\ run' = [kind |-> file.kind, file0 |-> file, ids0 |-> EntryIds(d),
                    appended |-> <<>>, inspected |-> 0, rerun |-> hist.fresh,
                    from_time |-> FromTime(opts.max_time, cur, FeedUpdated(d)),
                    writes |-> 0]
  /\ src' = mbox
  /\ pos' = 1
  /\ count' = 0
  /\ pc' = "ingesting"
  /\ UNCHANGED <<file, opts, cfg, mbox, now, tzone, hist, lastTrim, api>>

\* lines 600-603: the next message is already in the feed: break
IngestKnown ==
  /\ pc = "ingesting"
  /\ pos <= Len(src)
  /\ contains_message(doc, src[pos])
  /\ run' = [run EXCEPT !.inspected = @ + 1]
  /\ pc' = "ingested"
  /\ UNCHANGED <<file, doc, opts, cfg, mbox, src, pos, count, now, tzone,
                 current_time, hist, lastTrim, api>>

\* the loop's test after an add: break once count > max_items
CapReachedStrict(n, max_items) == max_items > 0 /\ n >= max_items

CapReached(n, max_items) == max_items > 0 /\ n > max_items

\* lines 604-609: the next message is new: add it, count it, test the cap
IngestNew ==
  /\ pc = "ingesting"
  /\ pos <= Len(src)
  /\ ~contains_message(doc, src[pos])
  /\ ~add_message_raises(src[pos])
  /\ doc' = add_message(doc, src[pos], now, tzone)
  /\ count' = count + 1
  /\ run' = [run EXCEPT !.inspected = @ + 1,
                        !.appended = Append(@, src[pos])]
  /\ LET no == Len(src) - pos + 1
     IN  hist' = [hist EXCEPT !.everAdded = @ \cup {no},
                              !.readded = @ \/ no \in hist.everAdded]
  /\ IF CapReached(count + 1, opts.max_items)
     THEN pc' = "ingested" /\ pos' = pos
     ELSE pc' = "ingesting" /\ pos' = pos + 1
  /\ UNCHANGED <<file, opts, cfg, mbox, src, now, tzone, current_time,
                 lastTrim, api>>

\* lines 604-605: add_message raises; nothing catches the exception, so the
\* process ends with the entry not appended and the feed not saved
IngestFail ==
  /\ pc = "ingesting"
  /\ pos <= Len(src)
  /\ ~contains_message(doc, src[pos])
  /\ add_message_raises(src[pos])
  /\ run' = [run EXCEPT !.inspected = @ + 1]
  /\ pc' = "failed"
  /\ UNCHANGED <<file, doc, opts, cfg, mbox, src, pos, count, now, tzone,
                 current_time, hist, lastTrim, api>>

\* the source is exhausted
IngestEnd ==
  /\ pc = "ingesting"
  /\ pos > Len(src)
  /\ pc' = "ingested"
  /\ UNCHANGED <<file, doc, opts, cfg, mbox, src, pos, count, now, tzone,
                 current_time, run, hist, lastTrim, api>>

\* line 612: feed.set_updated(current_time)
SetUpdated ==
  /\ pc = "ingested"
  /\ doc' = set_updated(doc, current_time)
  /\ pc' = "stamped"
  /\ UNCHANGED <<file, opts, cfg, mbox, src, pos, count, now, tzone,
                 current_time, run, hist, lastTrim, api>>

\* a save() that writes the file first and trims afterwards
SaveUntrimmed ==
  /\ pc = "stamped"
  /\ LET t == trim_entries(set_generator(doc), opts.max_items,
                           opts.max_time, now, tzone)
     IN  /\ lastTrim' = t
         /\ doc' = t.doc
         /\ file' = [kind |-> "feed", doc |-> set_generator(doc)]
         /\ pc' = IF t.raised THEN "failed" ELSE "saved"
  /\ hist' = [hist EXCEPT !.fresh = TRUE]
  /\ run' = [run EXCEPT !.writes = @ + 1]
  /\ UNCHANGED <<opts, cfg, mbox, src, pos, count, now, tzone,
                 current_time, api>>

\* line 613, save(): set_generator, trim_entries, then the file is written;
\* when trim_entries raises the process ends with the file not written
Save ==
  /\ pc = "stamped"
  /\ LET t == trim_entries(set_generator(doc), opts.max_items,
                           opts.max_time, now, tzone)
     IN  /\ lastTrim' = t
         /\ doc' = t.doc
         /\ IF t.raised
            THEN /\ pc' = "failed"
                 /\ UNCHANGED <<file, hist, run>>
            ELSE /\ pc' = "saved"
                 /\ file' = [kind |-> "feed", doc |-> t.doc]
                 /\ hist' = [hist EXCEPT !.fresh = TRUE]
                 /\ run' = [run EXCEPT !.writes = @ + 1]
  /\ UNCHANGED <<opts, cfg, mbox, src, pos, count, now, tzone,
                 current_time, api>>

\* the process ends: what it held in memory is gone
Exit ==
  /\ pc \in {"saved", "failed", "exited", "aborted"}
  /\ pc' = "idle"
  /\ doc' = <<>>
  /\ src' = <<>>
  /\ pos' = 1
  /\ count' = 0
  /\ current_time' = MinDate
  /\ run' = NoRun
  /\ lastTrim' = NoTrim
  /\ UNCHANGED <<file, opts, cfg, mbox, now, tzone, hist, api>>

NextRun ==
  \/ Tick
  \/ CorruptFile
  \/ Start
  \/ IngestKnown
  \/ IngestNew
  \/ IngestEnd
  \/ SetUpdated
  \/ Save
  \/ Exit

Next ==
  \/ \E m \in Messages : Len(mbox) < MaxMail /\ Deliver(m)
  \/ NextRun

Spec == Init /\ [][Next]_vars

----------------------------------------------------------------------------
(* The same program with --max-items 1, with the age rule on or off, when *)
(* the operator also changes --uri and --title between two runs           *)

Reconfigure(c) ==
  /\ Idle
  /\ c # cfg
  /\ cfg' = c
  /\ hist' = [hist EXCEPT !.fresh = FALSE]
  /\ UNCHANGED <<file, doc, pc, opts, mbox, src, pos, count, now, tzone,
                 current_time, run, lastTrim, api>>

InitConf ==
  /\ InitAny
  /\ opts.max_items = 1

NextConf ==
  \/ \E m \in Messages : Len(mbox) < MaxMailConf /\ Deliver(m)
  \/ NextRun
  \/ \E c \in Configs : Reconfigure(c)

SpecConf == InitConf /\ [][NextConf]_vars

----------------------------------------------------------------------------
(* The program with no cap and no age limit, over mailboxes of messages   *)
(* whose Date header is a date, is not a date, or is absent, and whose    *)
(* bodies have text leaves, other leaves, or leaves without a payload     *)

Mails ==
  { Mail(<<1>>, <<2>>, <<1>>, Leaf("text/plain", 1, 0)),
    Mail(<<2>>, <<2>>, <<0>>, Leaf("text/plain", 1, 0)),
    Mail(<<3>>, <<2>>, <<>>, Leaf("text/plain", 1, 0)),
    Mail(<<4>>, <<2>>, <<1>>, Leaf("text/plain", 0, 0)),
    Mail(<<5>>, <<>>, <<0>>,
         Multipart(<<Leaf("image/png", 1, 0),
                     Multipart(<<Leaf("text/html", 0, 1)>>)>>)),
    Mail(<<6>>, <<2>>, <<1>>,
         Multipart(<<Leaf("text/plain", 1, 1), Leaf("text/html", 2, 0)>>)),
    Mail(<<7>>, <<2>>, <<1>>, Leaf("text/calendar", 1, 2)),
    Mail(<<8>>, <<2>>, <<>>, Leaf("text/plain", 0, 0)) }

InitMsg ==
  /\ InitAny
  /\ opts.max_items = 0
  /\ opts.max_time = -1

NextMsg ==
  \/ \E m \in Mails : Len(mbox) < MaxMailMsg /\ Deliver(m)
  \/ Start
  \/ IngestKnown
  \/ IngestNew
  \/ IngestFail
  \/ IngestEnd
  \/ SetUpdated
  \/ Save
  \/ Exit

SpecMsg == InitMsg /\ [][NextMsg]_vars

----------------------------------------------------------------------------
(* The program invoked with any arguments: the operator changes one of    *)
(* them between two runs                                                  *)

\* the argument sets that differ from a in one argument
OneChange(a) ==
  {b \in ArgSets :
     Cardinality({k \in DOMAIN a : a[k] # b[k]}) = 1}

InitArgs ==
  /\ InitAny
  /\ opts.max_items = 0
  /\ opts.max_time = -1

NextArgs ==
  \/ Len(mbox) < MaxMailArgs /\ Deliver(Msg(<<1>>, <<2>>, <<1>>))
  \/ \E a \in OneChange(cfg.args) : Reconfigure(Config(cfg.uri, cfg.title, a))
  \/ ConfigError
  \/ Start
  \/ IngestKnown
  \/ IngestNew
  \/ IngestEnd
  \/ SetUpdated
  \/ Save
  \/ Exit

SpecArgs == InitArgs /\ [][NextArgs]_vars

----------------------------------------------------------------------------
(* The program reading from a server (pop3, imap, nntp): messages() is a   *)
(* generator, so each message is fetched when the loop asks for it, and    *)
(* the fetch can fail                                                      *)

Pop3Args == Args(1, "pop3", TRUE, TRUE, TRUE, FALSE, FALSE)
ImapArgs == Args(1, "imap", TRUE, TRUE, TRUE, FALSE, FALSE)
NntpArgs == Args(1, "nntp", TRUE, FALSE, FALSE, FALSE, TRUE)

\* a transport error handled like a failure that save() still follows
SourceErrorSaves ==
  /\ pc = "ingesting"
  /\ pos <= Len(src)
  /\ cfg.args.mode \in {"pop3", "pop3-ssl", "imap", "imap-ssl", "nntp"}
  /\ file' = [kind |-> "feed", doc |-> doc]
  /\ pc' = "aborted"
  /\ UNCHANGED <<doc, opts, cfg, mbox, src, pos, count, now, tzone,
                 current_time, run, hist, lastTrim, api>>

\* line 600: fetching the next message raises (pop.retr, imap.fetch,
\* nntp.head/body); nothing catches the exception, so the process ends
\* with set_updated and save never called
SourceError ==
  /\ pc = "ingesting"
  /\ pos <= Len(src)
  /\ cfg.args.mode \in {"pop3", "pop3-ssl", "imap", "imap-ssl", "nntp"}
  /\ pc' = "aborted"
  /\ UNCHANGED <<file, doc, opts, cfg, mbox, src, pos, count, now, tzone,
                 current_time, run, hist, lastTrim, api>>

\* lines 463-464: NNTPSource catches NNTPTemporaryError and goes on with
\* the article before; the loop never sees that message
SourceSkip ==
  /\ pc = "ingesting"
  /\ pos <= Len(src)
  /\ cfg.args.mode = "nntp"
  /\ pos' = pos + 1
  /\ UNCHANGED <<file, doc, pc, opts, cfg, mbox, src, count, now, tzone,
                 current_time, run, hist, lastTrim, api>>

InitNet ==
  /\ file = Absent
  /\ doc = <<>>
  /\ pc = "idle"
  /\ opts = [max_items |-> 0, max_time |-> -1]
  /\ cfg \in {Config(1, 1, a) : a \in {Pop3Args, ImapArgs, NntpArgs}}
  /\ mbox = <<>>
  /\ src = <<>>
  /\ pos = 1
  /\ count = 0
  /\ now = 0
  /\ tzone = 1
  /\ current_time = MinDate
  /\ run = NoRun
  /\ hist = [fresh |-> FALSE, everAdded |-> {}, readded |-> FALSE]
  /\ lastTrim = NoTrim
  /\ api = NoApi

NextNet ==
  \/ \E m \in Messages : Len(mbox) < MaxMailNet /\ Deliver(m)
  \/ Start
  \/ IngestKnown
  \/ IngestNew
  \/ IngestEnd
  \/ SourceError
  \/ SourceSkip
  \/ SetUpdated
  \/ Save
  \/ Exit

SpecNet == InitNet /\ [][NextNet]_vars

----------------------------------------------------------------------------
(* MessageFeed as a class: its set operations applied, in any order, to an *)
(* arbitrary document                                                      *)

\* all sequences over S of length at most n
SeqsUpTo(S, n) == UNION {[1..k -> S] : k \in 0..n}

DateInputs == {MinDate, current_datetime(0, 1), current_datetime(1, 0)}

FeedPool ==
  { Elem("id", 1), Elem("title", 1), Elem("link", 1),
    DateElem("updated", isoformat(MinDate)),
    Entry(<<1, <<1>>>>, isoformat(current_datetime(0, 1))),
    \* an entry with a title child of its own
    Node("entry", 0, <<1, <<2>>>>, isoformat(current_datetime(1, 0)), NoText,
         [decoded |-> <<1>>], NoContent) }

RestOfState ==
  /\ file = Absent
  /\ opts = [max_items |-> 0, max_time |-> -1]
  /\ cfg = Config(1, 1, MboxArgs)
  /\ mbox = <<>>
  /\ src = <<>>
  /\ pos = 1
  /\ count = 0
  /\ current_time = MinDate
  /\ run = NoRun
  /\ hist = [fresh |-> FALSE, everAdded |-> {}, readded |-> FALSE]
  /\ lastTrim = NoTrim

InitFeed ==
  /\ doc \in SeqsUpTo(FeedPool, MaxDoc)
  /\ pc = "api"
  /\ now = 0
  /\ tzone = 1
  /\ api = [NoApi EXCEPT !.init = doc]
  /\ RestOfState

Called(tag, element) ==
  /\ api.calls < MaxCalls
  /\ api' = [api EXCEPT !.calls = @ + 1, !.last[tag] = element,
                        !.n[tag] = @ + 1]
  /\ UNCHANGED <<file, pc, opts, cfg, mbox, src, pos, count, now, tzone,
                 current_time, run, hist, lastTrim>>

ApiSetId(v) ==
  /\ pc = "api"
  /\ doc' = set_id(doc, v)
  /\ Called("id", Elem("id", v))

ApiSetTitle(v) ==
  /\ pc = "api"
  /\ doc' = set_title(doc, v)
  /\ Called("title", Elem("title", v))

ApiSetLink(v) ==
  /\ pc = "api"
  /\ doc' = set_link(doc, v)
  /\ Called("link", Elem("link", v))

ApiSetUpdated(time) ==
  /\ pc = "api"
  /\ doc' = set_updated(doc, time)
  /\ Called("updated", DateElem("updated", isoformat(time)))

ApiSetGenerator ==
  /\ pc = "api"
  /\ doc' = set_generator(doc)
  /\ Called("generator", Elem("generator", PROGRAM_NAME))

NextFeed ==
  \/ \E v \in URIs : ApiSetId(v)
  \/ \E v \in Titles : ApiSetTitle(v)
  \/ \E v \in URIs : ApiSetLink(v)
  \/ \E t \in DateInputs : ApiSetUpdated(t)
  \/ ApiSetGenerator

SpecFeed == InitFeed /\ [][NextFeed]_vars

----------------------------------------------------------------------------
(* trim_entries applied to an arbitrary document: entries in any order,   *)
(* written under either UTC offset                                        *)

\* what an entry has as its updated child: a time written under either
\* offset, or nothing
UpdatedPool ==
  { isoformat(current_datetime(t, z)) : t \in {0, 1}, z \in TZs } \cup { NoText }

\* entries with these updated children, in this order, each with its own id
EntriesOf(texts) == [i \in 1..Len(texts) |-> Entry(<<1, <<i>>>>, texts[i])]

Header ==
  <<Elem("id", 1), DateElem("updated", isoformat(MinDate)), Elem("link", 1),
    Elem("title", 1)>>

InitTrim ==
  /\ \E texts \in SeqsUpTo(UpdatedPool, MaxEntries) :
       doc = Header \o EntriesOf(texts)
  /\ pc = "api"
  /\ now \in 0..MaxNow
  /\ tzone \in TZs
  /\ api = NoApi
  /\ RestOfState

ApiTrim(max_items, max_time) ==
  /\ pc = "api"
  /\ LET t == trim_entries(doc, max_items, max_time, now, tzone)
     IN  /\ lastTrim' = t
         /\ doc' = t.doc
         /\ pc' = IF t.raised THEN "raised" ELSE "trimmed"
  /\ UNCHANGED <<file, opts, cfg, mbox, src, pos, count, now, tzone,
                 current_time, run, hist, api>>

NextTrim ==
  \E k \in (-1)..MaxTrimCap, a \in (-1)..MaxTrimAge : ApiTrim(k, a)

SpecTrim == InitTrim /\ [][NextTrim]_vars

----------------------------------------------------------------------------
(* Claims *)

LoopDone == pc \in {"ingested", "stamped", "saved"}

\* the index of the first message of s whose entry id is in the feed when the
\* loop reaches it: in the loaded feed, or added for an earlier message of s
FirstKnown(s, ids, fid) ==
  Min({j \in 1..(Len(s) + 1) :
         \/ j = Len(s) + 1
         \/ <<fid, message_id(s[j])>>
              \in ids \cup {<<fid, message_id(s[i])>> : i \in 1..(j - 1)}})

\* C1 (Dedup stop): when the loop has stopped, and the messages before the
\* first already-present one number at most max_items (or max_items <= 0),
\* the loop has appended exactly those messages, in order, and has looked at
\* no message behind the already-present one.
C1_DedupStop ==
  LoopDone =>
    LET j == FirstKnown(src, run.ids0, FeedId(doc))
    IN  (opts.max_items <= 0 \/ j - 1 <= opts.max_items) =>
          /\ run.appended = SubSeq(src, 1, j - 1)
          /\ run.inspected = (IF j <= Len(src) THEN j ELSE Len(src))

\* a run that stopped at a message of the loaded feed, with new messages
\* before it and a message behind it
C1_Witness ==
  /\ pc = "ingested"
  /\ LET j == FirstKnown(src, run.ids0, FeedId(doc))
     IN  /\ 1 < j
         /\ j < Len(src)
         /\ <<FeedId(doc), message_id(src[j])>> \in run.ids0
         /\ (opts.max_items <= 0 \/ j - 1 <= opts.max_items)

\* C2 (Idempotent re-run), for runs with the age rule off: a run over the
\* source of the run that wrote the file saves the same set of entry ids.
C2_IdempotentRerun ==
  (pc = "saved" /\ run.rerun /\ opts.max_time <= 0) =>
    EntryIds(file.doc) = run.ids0

UniqueIds(d) ==
  \A i, j \in TopLevel(d, "entry") : i # j => d[i].eid # d[j].eid

\* C3 (Entry id uniqueness): no two entries of the document in memory, nor
\* of the feed file, have the same entry id.
C3_EntryIdUnique == UniqueIds(doc) /\ UniqueIds(file.doc)

\* the source yielded two different messages with one fingerprint, and the
\* loop has taken both
C3_Witness ==
  /\ pc = "ingested"
  /\ \E i, j \in 1..run.inspected :
        /\ i < j
        /\ src[i] # src[j]
        /\ message_id(src[i]) = message_id(src[j])

Instant(text) == text.local - text.off * MinutesPerHour

\* C4 (Cap enforcement): after trim_entries with max_items = k > 0 the feed
\* has at most k entries; the count rule removes none when there are at most
\* k and leaves exactly k otherwise, and every entry it leaves is at least as
\* recently updated as every entry it removed.
C4_CapEnforcement ==
  (lastTrim.done /\ lastTrim.max_items > 0) =>
    LET b == lastTrim.before
        k == lastTrim.max_items
        E == TopLevel(b, "entry")
        kept == E \ lastTrim.goneCount
    IN  /\ Cardinality(TopLevel(lastTrim.doc, "entry")) <= k
        /\ lastTrim.goneCount \subseteq E
        /\ Cardinality(kept) = (IF Cardinality(E) > k THEN k ELSE Cardinality(E))
        /\ \A r \in kept, x \in lastTrim.goneCount :
              Instant(b[r].upd) >= Instant(b[x].upd)

\* the count rule removed an entry that was not the first in document order
\* and kept an older-looking local time written under another offset
C4_Witness ==
  /\ lastTrim.done
  /\ lastTrim.max_items > 0
  /\ lastTrim.goneCount # {}
  /\ \E r \in TopLevel(lastTrim.before, "entry") \ lastTrim.goneCount,
        x \in lastTrim.goneCount :
        /\ r < x
        /\ lastTrim.before[r].upd.local < lastTrim.before[x].upd.local

\* C5 (Age enforcement): after trim_entries with max_time = a > 0 at time T
\* no entry left in the feed was updated before T minus a minutes.
C5_AgeEnforcement ==
  (lastTrim.done /\ lastTrim.max_time > 0 /\ doc = lastTrim.doc) =>
    \A i \in TopLevel(doc, "entry") :
      Instant(doc[i].upd) >= now - lastTrim.max_time

\* the age rule removed entries that were not first in document order, after
\* the count rule had removed one too
C5_Witness ==
  /\ lastTrim.done
  /\ lastTrim.max_time > 0
  /\ doc = lastTrim.doc
  /\ lastTrim.goneCount # {}
  /\ Cardinality(lastTrim.goneAge) >= 1
  /\ TopLevel(doc, "entry") # {}
  /\ \E x \in lastTrim.goneAge, r \in TopLevel(lastTrim.before, "entry") :
        r < x /\ r \notin lastTrim.goneAge \cup lastTrim.goneCount

\* C6 (An entry is created at most once per message): no run appends an
\* entry for a message of the mailbox that an earlier run already ingested.
C6_CreatedOnce == ~hist.readded

AppendedIds == {<<cfg.uri, message_id(run.appended[i])>> : i \in 1..Len(run.appended)}

\* C7 as stated: the file saved by a run that found a corrupt file holds
\* exactly the entries ingested in that run (here for runs in which the loop
\* added at most max_items entries).
C7_ExactlyIngested ==
  (pc = "saved" /\ run.kind = "corrupt"
     /\ (opts.max_items <= 0 \/ Len(run.appended) <= opts.max_items)) =>
    EntryIds(file.doc) = AppendedIds

\* C7 (Corrupt file recovery), amended: a run that finds a corrupt file
\* starts from the fresh feed (id = the configured uri, no entries), and the
\* file it saves holds only entries ingested in that run: those that
\* trim_entries did not remove.
C7_CorruptRecovery ==
  (pc # "idle" /\ run.kind = "corrupt") =>
    /\ run.ids0 = {}
    /\ FeedId(doc) = cfg.uri
    /\ pc = "saved" =>
         /\ file.kind = "feed"
         /\ FeedId(file.doc) = cfg.uri
         /\ EntryIds(file.doc) \subseteq AppendedIds
         /\ Cardinality(TopLevel(file.doc, "entry"))
              = Len(run.appended) - Cardinality(lastTrim.goneCount)
                  - Cardinality(lastTrim.goneAge)

\* a run saved after a corrupt file that held an entry under another feed
\* id; the run ingested messages and its trim removed one of them
C7_Witness ==
  /\ pc = "saved"
  /\ run.kind = "corrupt"
  /\ TopLevel(run.file0.doc, "entry") # {}
  /\ FeedId(run.file0.doc) # cfg.uri
  /\ TopLevel(file.doc, "entry") # {}
  /\ lastTrim.goneCount \cup lastTrim.goneAge # {}

\* C8 (Singleton replace): once a set operation was called for a tag of which
\* the root had at most one direct child, the root has exactly one direct
\* child with that tag, and it is the element of the last call.
C8_SingletonReplace ==
  \A t \in Tags :
    (api.n[t] >= 1 /\ Cardinality(TopLevel(api.init, t)) <= 1) =>
      /\ Cardinality(TopLevel(doc, t)) = 1
      /\ doc[Min(TopLevel(doc, t))] = api.last[t]

\* set_title called several times, last with a new value, on a document that
\* had a title and has entries
C8_Witness ==
  /\ api.n["title"] >= 2
  /\ api.last["title"].val = 2
  /\ Cardinality(TopLevel(api.init, "title")) = 1
  /\ TopLevel(doc, "entry") # {}

Constructed == pc \in {"ingesting", "ingested", "stamped", "saved"}

LinkOf(d) == d[Min(TopLevel(d, "link"))].val
TitleOf(d) == d[Min(TopLevel(d, "title"))].val

\* C9 as stated: after the feed is constructed from an existing file, the
\* feed-level id equals the configured uri.
C9_IdReapplied ==
  (Constructed /\ run.kind = "feed") => FeedId(doc) = cfg.uri

\* C9, amended: after the feed is constructed from a file an earlier run
\* wrote, the self link and the title equal the configured uri and title,
\* each exactly once, and the feed-level id is the id the file holds.
C9_LinkTitleReapplied ==
  (Constructed /\ run.kind = "feed") =>
    /\ Cardinality(TopLevel(doc, "link")) = 1
    /\ Cardinality(TopLevel(doc, "title")) = 1
    /\ LinkOf(doc) = cfg.uri
    /\ TitleOf(doc) = cfg.title
    /\ FeedId(doc) = FeedId(run.file0.doc)

\* a feed constructed from a file written under another uri and title
C9_Witness ==
  /\ pc = "ingesting"
  /\ run.kind = "feed"
  /\ FeedId(doc) # cfg.uri
  /\ LinkOf(run.file0.doc) # cfg.uri
  /\ TitleOf(run.file0.doc) # cfg.title

\* C10 (Per-run ingestion cap): with max_items = k > 0 the loop of a run
\* appends at most k entries.
C10_PerRunCap ==
  opts.max_items > 0 => Len(run.appended) <= opts.max_items

RunOrder ==
  { <<"idle", "ingesting">>, <<"ingesting", "ingested">>,
    <<"ingested", "stamped">>, <<"stamped", "saved">>, <<"saved", "idle">> }

\* C11 (Run ordering): the program's position only moves along load,
\* ingestion, stamp, save, exit.  While the loop runs, the feed-level updated
\* is the one the constructor left; once the loop has stopped and
\* set_updated was called it is the run's current_time.  The file is not
\* written before save and is written once by it, holding the document with
\* the generator set and trim applied; entries are appended only while the
\* loop runs, never after trim.
C11_RunOrdering ==
  /\ [][pc' # pc => <<pc, pc'>> \in RunOrder]_vars
  /\ [][LoopDone => EntryIds(doc') \subseteq EntryIds(doc)]_vars
  /\ [][(pc # "idle" /\ file' # file) => (pc = "stamped" /\ pc' = "saved")]_vars
  /\ [](pc \in {"ingesting", "ingested"} =>
          /\ FeedUpdated(doc)
               = FeedUpdated(MessageFeedInit(run.file0, cfg.uri, cfg.title))
          /\ run.writes = 0
          /\ file = run.file0
          /\ ~lastTrim.done)
  /\ [](pc = "stamped" =>
          /\ FeedUpdated(doc) = current_time
          /\ run.writes = 0
          /\ file = run.file0
          /\ ~lastTrim.done)
  /\ [](pc = "saved" =>
          /\ FeedUpdated(doc) = current_time
          /\ run.writes = 1
          /\ lastTrim.done
          /\ TopLevel(lastTrim.before, "generator") # {}
          /\ file = [kind |-> "feed", doc |-> lastTrim.doc]
          /\ doc = lastTrim.doc)

\* a run that loaded a file stamped at another time, appended entries, and
\* saved after trim removed one
C11_Witness ==
  /\ pc = "saved"
  /\ run.kind = "feed"
  /\ FeedUpdated(run.file0.doc) # current_time
  /\ run.appended # <<>>
  /\ lastTrim.goneCount # {}
  /\ file # run.file0

\* the entry the loop appended for the i-th message it added in this run
AppendedEntry(i) == doc[Len(doc) - Len(run.appended) + i]

DateParses(message) == parsedate(message.Date) # <<>>

ContentsFine(message) ==
  ~message_contents(message.body, get_charset(message.body, Ascii)).raised

\* C12 (Date failure is recovered per message): the entry appended for a
\* message whose Date header is not a date, or is absent, has the sentinel
\* minimum timestamp as its published date, and the run does not end at such
\* a message (here for messages whose body add_message can read).
C12_DateFailureRecovered ==
  /\ pc \in {"ingesting", "ingested"} =>
        \A i \in 1..Len(run.appended) :
          ~DateParses(run.appended[i]) =>
            AppendedEntry(i).pub = isoformat(MinDate)
  /\ pc = "failed" => (DateParses(src[pos]) \/ ~ContentsFine(src[pos]))

\* C13 (Disabled retention rules): trim_entries with max_items <= 0 removes
\* no entry by the count rule, with max_time <= 0 none by the age rule, and
\* with both <= 0 it leaves the document as it was (also when it raises).
C13_DisabledRules ==
  (lastTrim.done \/ lastTrim.raised) =>
    /\ lastTrim.max_items <= 0 => lastTrim.goneCount = {}
    /\ lastTrim.max_time <= 0 => lastTrim.goneAge = {}
    /\ (lastTrim.max_items <= 0 /\ lastTrim.max_time <= 0) =>
          /\ lastTrim.doc = lastTrim.before
          /\ doc = lastTrim.before

\* trim_entries was called with max_items = 0 and max_time = 0 on a feed of
\* several entries, one of them updated before the time of the call
C13_Witness ==
  /\ lastTrim.done
  /\ pc = "trimmed"
  /\ lastTrim.max_items = 0
  /\ lastTrim.max_time = 0
  /\ Cardinality(TopLevel(lastTrim.before, "entry")) >= 2
  /\ \E i \in TopLevel(lastTrim.before, "entry") :
        Instant(lastTrim.before[i].upd) < now

NumberOf(d, t) == Cardinality(TopLevel(d, t))

\* C14 as stated: from the end of the constructor until the feed is saved
\* the root has exactly one direct child of each of id, title, link, updated
\* and generator.
C14_AllSingletons ==
  Constructed => \A t \in Tags : NumberOf(doc, t) = 1

\* C14 (Singleton existence), amended: from the end of the constructor until
\* the feed is saved the root has exactly one direct child of each of id,
\* title, link and updated.  The generator is set by save only: a feed that
\* started fresh has none before save, a feed loaded from a file an earlier
\* run wrote has one, and the document save writes has one.
C14_SingletonsButGenerator ==
  Constructed =>
    /\ \A t \in {"id", "title", "link", "updated"} : NumberOf(doc, t) = 1
    /\ NumberOf(doc, "generator") =
         (IF pc = "saved" \/ run.kind = "feed" THEN 1 ELSE 0)
    /\ pc = "saved" => \A t \in Tags : NumberOf(file.doc, t) = 1

\* a feed loaded from a file with entries, to which the run appended an
\* entry and whose updated was replaced by another time, not yet saved
C14_Witness ==
  /\ pc = "stamped"
  /\ run.kind = "feed"
  /\ TopLevel(run.file0.doc, "entry") # {}
  /\ run.appended # <<>>
  /\ FeedUpdated(run.file0.doc) # FeedUpdated(doc)

\* the element is the child immediately before the first entry, or the last
\* child when there is no entry
Positioned(d, element) ==
  LET entries == TopLevel(d, "entry")
  IN  IF entries # {}
      THEN Min(entries) > 1 /\ d[Min(entries) - 1] = element
      ELSE d # <<>> /\ d[Len(d)] = element

\* C15 (Replace positioning): every set operation leaves the element it
\* created immediately before the first entry, or as the last child of the
\* root when the feed has no entry, and leaves the entries as they were.
C15_ReplacePositioning ==
  [][\A t \in Tags :
       api'.n[t] # api.n[t] =>
         /\ Positioned(doc', api'.last[t])
         /\ SortedEntries(doc') # <<>> <=> SortedEntries(doc) # <<>>
         /\ EntryIds(doc') = EntryIds(doc)]_vars

\* set_id was called on a feed that had another id, which was not the child
\* just before its first entry
C15_Witness ==
  /\ api.calls = 1
  /\ api.n["id"] = 1
  /\ TopLevel(api.init, "id") # {}
  /\ TopLevel(api.init, "entry") # {}
  /\ Min(TopLevel(api.init, "id")) + 1 < Min(TopLevel(api.init, "entry"))
  /\ api.last["id"] # api.init[Min(TopLevel(api.init, "id"))]
  /\ Positioned(doc, api.last["id"])

RECURSIVE HasTextLeaf(_)
\* the body has a text/plain or text/html leaf with a payload
HasTextLeaf(part) ==
  IF part.multipart
  THEN \E i \in 1..Len(part.parts) : HasTextLeaf(part.parts[i])
  ELSE part.payload # 0 /\ part.type \in {"text/plain", "text/html"}

\* C16 (Fallback content): the entry appended for a message without a
\* text/plain or text/html leaf that has a payload has its title text as its
\* content, and add_message does not fail on such a message (here for
\* messages that have a Date header).
C16_FallbackContent ==
  /\ pc \in {"ingesting", "ingested"} =>
        \A i \in 1..Len(run.appended) :
          ~HasTextLeaf(run.appended[i].body) =>
            AppendedEntry(i).content.text = AppendedEntry(i).title
  /\ (pc = "failed" /\ src[pos].Date # <<>>) => HasTextLeaf(src[pos].body)

\* the filename argument is missing, or the mode lacks a parameter it
\* requires
MissingParameter(a) ==
  \/ a.nargs = 0
  \/ a.mode \in {"pop3", "pop3-ssl", "imap", "imap-ssl", "nntp"} /\ ~a.host
  \/ a.mode \in {"pop3", "pop3-ssl", "imap", "imap-ssl"} /\ ~a.user
  \/ a.mode \in {"pop3", "pop3-ssl", "imap", "imap-ssl"} /\ ~a.password
  \/ a.mode \in {"mbox", "maildir"} /\ ~a.file
  \/ a.mode = "nntp" /\ ~a.group

\* C17 (Configuration errors precede feed I/O): invoked without the
\* filename or without a parameter the mode requires, the program only
\* exits: it never constructs the feed (the file is not read), never creates
\* the source, and the feed file stays as it was.
C17_ConfigErrorsFirst ==
  /\ [](MissingParameter(cfg.args) =>
          /\ pc \in {"idle", "exited"}
          /\ run = NoRun
          /\ doc = <<>>
          /\ src = <<>>)
  /\ [][MissingParameter(cfg.args) => file' = file]_vars
  /\ [][(pc = "idle" /\ pc' # "idle" /\ MissingParameter(cfg.args)) =>
          pc' = "exited"]_vars

\* the nntp mode invoked with a host and without a group, when a feed file
\* exists and the mailbox has a message that is not yet in the feed
C17_Witness ==
  /\ pc = "exited"
  /\ cfg.args = Args(1, "nntp", TRUE, FALSE, FALSE, FALSE, FALSE)
  /\ file.kind = "feed"
  /\ mbox # <<>>
  /\ TopLevel(file.doc, "entry") = {}

HasUpdated(entry) == entry.upd # NoText

\* the feed has entries with an updated child and entries without one
Mixed(d) ==
  \E i, j \in TopLevel(d, "entry") : HasUpdated(d[i]) /\ ~HasUpdated(d[j])

\* C18 (Entries without a usable updated timestamp): on a feed that mixes
\* entries with and without an updated child, trim_entries completes, and it
\* removes the entries without updated before any entry that has one.
C18_MissingUpdatedOldest ==
  (pc \in {"trimmed", "raised"} /\ Mixed(lastTrim.before)) =>
    /\ ~lastTrim.raised
    /\ lastTrim.done
    /\ \A x, r \in TopLevel(lastTrim.before, "entry") :
          ( /\ ~HasUpdated(lastTrim.before[x])
            /\ HasUpdated(lastTrim.before[r])
            /\ r \in lastTrim.goneCount \cup lastTrim.goneAge )
          => x \in lastTrim.goneCount \cup lastTrim.goneAge

\* C19 (Stable tie-break in trim): trim_entries removes entries from the
\* front of the sorted list, in which entries with equal updated timestamps
\* stand in document order; so of two entries with equal timestamps the
\* later one in the document is never removed while the earlier one is kept,
\* and the count rule takes the earlier one when the age rule takes the other.
C19_StableTieBreak ==
  lastTrim.done =>
    LET b == lastTrim.before
        order == lastTrim.order
        gone == lastTrim.goneCount \cup lastTrim.goneAge
    IN  /\ \A p, q \in 1..Len(order) :
              (p < q /\ Instant(b[order[p]].upd) = Instant(b[order[q]].upd))
                => order[p] < order[q]
        /\ gone = {order[q] : q \in 1..Cardinality(gone)}
        /\ lastTrim.goneCount = {order[q] : q \in 1..lastTrim.nCount}
        /\ \A x \in gone, r \in TopLevel(b, "entry") \ gone :
              Instant(b[x].upd) = Instant(b[r].upd) => x < r
        /\ \A x \in lastTrim.goneCount, y \in lastTrim.goneAge :
              Instant(b[x].upd) = Instant(b[y].upd) => x < y

\* of two entries updated at the same instant, written under different
\* offsets, the count rule removed the earlier one in the document and the
\* age rule the later one, and a newer entry standing before both was kept
C19_Witness ==
  /\ lastTrim.done
  /\ pc = "trimmed"
  /\ \E x \in lastTrim.goneCount, y \in lastTrim.goneAge,
        r \in TopLevel(lastTrim.before, "entry") :
        LET b == lastTrim.before
        IN  /\ r \notin lastTrim.goneCount \cup lastTrim.goneAge
            /\ Instant(b[x].upd) = Instant(b[y].upd)
            /\ b[x].upd # b[y].upd
            /\ r < x
            /\ x < y

\* C20 (Newest message is kept): with max_items >= 1, the file saved by a
\* run that appended entries has the entry of the first message the source
\* yielded.
C20_NewestKept ==
  (pc = "saved" /\ opts.max_items >= 1 /\ run.appended # <<>>) =>
    /\ run.appended[1] = src[1]
    /\ EntryIdOf(file.doc, src[1]) \in EntryIds(file.doc)

\* C21 (Transport error): a run that ends in an error raised while the
\* source is iterated has not called save: the feed file is the one the run
\* found, it holds none of the entries the run appended, and it stays so
\* when the process ends.
C21_TransportErrorNoSave ==
  /\ [](pc = "aborted" =>
          /\ file = run.file0
          /\ run.writes = 0
          /\ ~lastTrim.done
          /\ \A i \in 1..Len(run.appended) :
                /\ AppendedEntry(i).eid = EntryIdOf(doc, run.appended[i])
                /\ AppendedEntry(i).eid \notin EntryIds(file.doc))
  /\ [][(pc = "ingesting" /\ pc' = "aborted") => file' = file]_vars
  /\ [][pc = "aborted" => (file' = file /\ pc' \in {"aborted", "idle"})]_vars

\* the fetch of a message failed after the run had appended an entry to a
\* feed loaded from a file that has an entry
C21_Witness ==
  /\ pc = "aborted"
  /\ run.kind = "feed"
  /\ TopLevel(file.doc, "entry") # {}
  /\ run.appended # <<>>
  /\ pos <= Len(src)
  /\ cfg.args.mode = "pop3"

\* the children of d that are among the nodes of S, in the order d has them
Retained(d, S) == SelectSeq(d, LAMBDA x : x \in S)

Children(d) == {d[i] : i \in 1..Len(d)}

\* C22 (Trim only removes): once trim_entries has run, whether it returned or
\* raised, the document is the one it was given with some entries taken out:
\* every child that is left is a child of the old document, unmodified; the
\* children that are left stand in the order the old document had them,
\* entries and non-entry children alike; and every child that is gone is an
\* entry.  (No two children of the old document are equal, so a child is
\* identified by its contents.)
C22_TrimOnlyRemoves ==
  (pc \in {"trimmed", "raised"}) =>
    LET old == lastTrim.before
    IN  /\ \A i, j \in 1..Len(old) : old[i] = old[j] => i = j
        /\ Children(doc) \subseteq Children(old)
        /\ doc = Retained(old, Children(doc))
        /\ \A x \in Children(old) \ Children(doc) : x.tag = "entry"
        /\ SelectSeq(doc, LAMBDA x : x.tag # "entry")
             = SelectSeq(old, LAMBDA x : x.tag # "entry")

\* trim_entries removed an entry and left two whose order in the document is
\* not the order of the sort: the earlier one is the newer
C22_Witness ==
  /\ pc = "trimmed"
  /\ lastTrim.nCount + lastTrim.nAge > 0
  /\ \E i, j \in TopLevel(doc, "entry") :
       /\ i < j
       /\ CmpDate(entry_date(doc[i]), entry_date(doc[j])) > 0

EntriesIn(d) == SelectSeq(d, LAMBDA x : x.tag = "entry")

\* d without its first direct child of this tag, if it has one
WithoutFirst(d, tag) ==
  IF TopLevel(d, tag) # {} THEN RemoveAt(d, Min(TopLevel(d, tag))) ELSE d

\* C23 (Set operations leave entries untouched): a call of set_id, set_title,
\* set_link, set_updated or set_generator leaves the entries as they were, the
\* same number in the same order and each with the id, updated, title and
\* other children it had; and the root's children after the call are the
\* children before it, in their order, with the first direct child of the
\* tag (if there was one) taken out and the new element put in.  This holds
\* also when no direct child of the tag exists and an entry has a child of
\* that tag.
C23_SetOperationsSpareEntries ==
  [][\A t \in Tags :
       api'.n[t] # api.n[t] =>
         /\ EntriesIn(doc') = EntriesIn(doc)
         /\ \A i \in 1..Len(EntriesIn(doc)) :
              /\ EntriesIn(doc')[i].eid = EntriesIn(doc)[i].eid
              /\ EntriesIn(doc')[i].upd = EntriesIn(doc)[i].upd
              /\ EntriesIn(doc')[i].title = EntriesIn(doc)[i].title
         /\ \E p \in 1..Len(doc') :
              /\ doc'[p] = api'.last[t]
              /\ RemoveAt(doc', p) = WithoutFirst(doc, t)]_vars

\* set_id and set_updated were called on a document that had no direct id
\* and no direct updated child but two entries, each with an id and an
\* updated child and one with a title: the entries are as they were
C23_Witness ==
  /\ api.calls = 2
  /\ api.n["id"] = 1
  /\ api.n["updated"] = 1
  /\ TopLevel(api.init, "id") = {}
  /\ TopLevel(api.init, "updated") = {}
  /\ Len(EntriesIn(api.init)) = 2
  /\ \A i \in 1..2 : /\ EntriesIn(api.init)[i].eid # <<>>
                      /\ EntriesIn(api.init)[i].upd # NoText
  /\ \E i \in 1..2 : EntriesIn(api.init)[i].title # NoTitle
  /\ EntriesIn(doc) = EntriesIn(api.init)
  /\ Len(doc) = Len(api.init) + 2

====
